---- MODULE Spec2Model ----
(***************************************************************************)
(* Model of src/ReceiptOCRAzure.py: the /process_image endpoint, the tax   *)
(* formatter _format_tax_details and compute_average_confidence.           *)
(*                                                                         *)
(* Numbers.  Python floats are modelled as exact fixed-point integers in   *)
(* units of 1/10000: an amount of 10.01 is 100100, a fractional tax rate   *)
(* of 0.19 is 1900, a confidence of 0.5 is 5000.  The inputs are chosen so *)
(* that every product is exact and no rounding tie occurs.                 *)
(*                                                                         *)
(* Optional values.  Python's None is the empty sequence and a present     *)
(* value v is <<v>>, so that an absent field, an absent attribute and an   *)
(* unbound local can all be compared with present ones.                    *)
(***************************************************************************)
EXTENDS Integers, Sequences, FiniteSets, TLC

VARIABLES
    pc,             \* position of the request inside process_image
    image_file,     \* the upload: content_type and contents
    analyzeCalls,   \* number of begin_analyze_document calls made
    receipts,       \* AnalyzeResult.documents returned by poller.result()
    idx,            \* loop index of `for idx, receipt in enumerate(...)`
    processed,      \* indices of the documents whose fields were read
    warnings,       \* local `warnings` of the processed receipt
    validation_errors, \* local `validation_errors` of the processed receipt
    output,         \* local `output` (None until line 212-225 has run)
    outcome,        \* how the request ended
    taxArgs,        \* arguments of a direct _format_tax_details call
    taxResult       \* its result

vars == <<pc, image_file, analyzeCalls, receipts, idx, processed, warnings,
          validation_errors, output, outcome, taxArgs, taxResult>>

-----------------------------------------------------------------------------
(* Bounds *)

MaxTax == 2

MaxTaxInReceipt == 1

MaxDocs == 2

-----------------------------------------------------------------------------
(* Optional values *)

None == <<>>

Some(v) == <<v>>

IsNone(o) == o = <<>>

Val(o) == o[1]

Opt(S) == {None} \cup {Some(v) : v \in S}

-----------------------------------------------------------------------------
(* Fixed-point arithmetic standing for the float operations of the code *)

Scale == 100 * 100

\* a * b for two fixed-point numbers
Mul(a, b) == (a * b) \div Scale

\* round(n / d) to the nearest integer, ties to even, as Python's round does
RoundDiv(n, d) ==
    LET q == n \div d
        r == n % d
    IN  IF 2 * r < d THEN q
        ELSE IF 2 * r > d THEN q + 1
        ELSE IF q % 2 = 0 THEN q ELSE q + 1

\* round(x, 2): two decimals are 100 units of 1/10000
Round2(x) == RoundDiv(x, 100) * 100

\* round(x, 4) of a quotient n / d of fixed-point numbers
Round4Div(n, d) == RoundDiv(n, d)

RECURSIVE SumSeq(_)
SumSeq(s) == IF s = <<>> THEN 0 ELSE Head(s) + SumSeq(Tail(s))

RECURSIVE SeqsUpTo(_, _)
SeqsUpTo(S, n) ==
    IF n = 0 THEN {<<>>}
    ELSE LET shorter == SeqsUpTo(S, n - 1)
         IN  shorter \cup {Append(s, x) : s \in {t \in shorter : Len(t) = n - 1}, x \in S}

-----------------------------------------------------------------------------
(* _format_tax_details, lines 25-69 *)

GermanRates == {1900, 700}

\* lines 35-36: rate_field, rate
RateOf(tax_obj) ==
    IF IsNone(tax_obj.Rate) THEN None ELSE Val(tax_obj.Rate).value_number

\* lines 38-40 and 42-45: X_field, X_currency, X_amount
AmountOf(field) ==
    IF IsNone(field) THEN None
    ELSE IF IsNone(Val(field).value_currency) THEN None
    ELSE Val(Val(field).value_currency).amount

\* line 53 with the percentage instead of the fraction
ComputedTaxAmountPct(net_amount, rate) ==
    IF IsNone(net_amount) THEN None ELSE Some(Mul(Val(net_amount), rate) * 100)

\* line 53: tax_amount = net_amount * rate if net_amount is not None else None
ComputedTaxAmount(net_amount, rate) ==
    IF IsNone(net_amount) THEN None ELSE Some(Mul(Val(net_amount), rate))

\* lines 35-65: the dict appended for one tax_obj
TaxEntry(tax_obj) ==
    LET rate       == RateOf(tax_obj)
        net_amount == AmountOf(tax_obj.NetAmount)
        given_tax  == AmountOf(tax_obj.Amount)
    IN  IF ~IsNone(rate)
        THEN LET tax_amount == IF IsNone(given_tax)
                               THEN ComputedTaxAmount(net_amount, Val(rate))
                               ELSE given_tax
             IN  [Rate      |-> Val(rate) * 100,
                  Netto     |-> net_amount,
                  TaxAmount |-> tax_amount,
                  Brutto    |-> IF ~IsNone(net_amount) /\ ~IsNone(tax_amount)
                                THEN Some(Round2(Val(net_amount) + Val(tax_amount)))
                                ELSE None]
        ELSE [Rate      |-> 0,
              Netto     |-> net_amount,
              TaxAmount |-> given_tax,
              Brutto    |-> net_amount]

\* lines 30-65: the loop; `rate` is None while the local is still unbound
RECURSIVE TaxLoop(_, _, _)
TaxLoop(value_array, tax_list, rate) ==
    IF value_array = <<>> THEN [tax_list |-> tax_list, rate |-> rate]
    ELSE LET tax_detail == Head(value_array)
         IN  IF IsNone(tax_detail.value_object)
             THEN TaxLoop(Tail(value_array), tax_list, rate)
             ELSE LET e == TaxEntry(Val(tax_detail.value_object))
                  IN  TaxLoop(Tail(value_array), Append(tax_list, e), Some(e.Rate))

\* lines 25-69.  kind "None" is `return None`, kind "tuple" a returned pair,
\* kind "raise" the UnboundLocalError of reading `rate` at line 66 when no
\* loop iteration has assigned it.
_format_tax_details(tax_details, country_code) ==
    IF IsNone(tax_details)
    THEN [kind |-> "None", country |-> None, tax_list |-> <<>>]
    ELSE LET l == TaxLoop(Val(tax_details).value_array, <<>>, None)
         IN  IF country_code = Some("DE")
             THEN IF IsNone(l.rate)
                  THEN [kind |-> "raise", country |-> None, tax_list |-> <<>>]
                  ELSE IF Val(l.rate) \notin GermanRates
                       THEN [kind |-> "tuple", country |-> Some("AT"), tax_list |-> l.tax_list]
                       ELSE [kind |-> "tuple", country |-> country_code, tax_list |-> l.tax_list]
             ELSE [kind |-> "tuple", country |-> country_code, tax_list |-> l.tax_list]

-----------------------------------------------------------------------------
(* Inputs of _format_tax_details *)

\* fractional rates 0.19, 0.07 and 0.20
Rates == {1900, 700, 2000}

Currency(a) == [amount |-> Some(a), currency_code |-> Some("EUR")]

RateFields == Opt({[value_number |-> n] : n \in Opt(Rates)})

\* net amount 10.01
NetFields == Opt({[value_currency |-> c] : c \in Opt({Currency(100100)})})

\* tax amount 1.90
TaxAmountFields == Opt({[value_currency |-> Some(Currency(19000))]})

TaxObjects == [Rate : RateFields, NetAmount : NetFields, Amount : TaxAmountFields]

TaxDetailEntries == {[value_object |-> o] : o \in Opt(TaxObjects)}

TaxDetailsField(arr) == [confidence |-> Some(9000), value_array |-> arr]

Countries == Opt({"DE", "FR"})

-----------------------------------------------------------------------------
(* compute_average_confidence, lines 98-111 *)

FieldNames == {"ReceiptType", "CountryRegion", "TransactionDate", "TransactionTime",
               "DepartureDate", "Total", "Tip", "TaxDetails"}

\* the confidences of the fields that are present and have one, in a fixed order
RECURSIVE ConfidencesOf(_, _)
ConfidencesOf(fields, names) ==
    IF names = {} THEN <<>>
    ELSE LET n    == CHOOSE x \in names : TRUE
             rest == ConfidencesOf(fields, names \ {n})
         IN  IF ~IsNone(fields[n]) /\ ~IsNone(Val(fields[n]).confidence)
             THEN <<Val(Val(fields[n]).confidence)>> \o rest
             ELSE rest

\* `not receipt.fields`: the field map is None or empty
NoFields(receipt) == \A n \in FieldNames : IsNone(receipt.fields[n])

compute_average_confidence(receipt) ==
    IF NoFields(receipt) THEN 0
    ELSE LET confidences == ConfidencesOf(receipt.fields, FieldNames)
         IN  IF confidences = <<>> THEN 0
             ELSE Round4Div(SumSeq(confidences), Len(confidences))

-----------------------------------------------------------------------------
(* process_image, lines 182-252: the body run for a receipt with fields *)

CONFIDENCE_THRESHOLD == 5000

\* date.strftime("%d-%m-%Y"): the string is modelled by its three parts
StrfDate(d) == <<d.day, d.month, d.year>>

\* time.strftime("%H:%M:%S")
StrfTime(t) == <<t.hour, t.minute, t.second>>

\* lines 187-198 without the warning
DateFallbackNoWarning(fields) ==
    LET date_obj   == fields["TransactionDate"]
        date_value == IF IsNone(date_obj) THEN None ELSE Val(date_obj).value_date
    IN  IF IsNone(date_value)
        THEN LET departure_date_obj   == fields["DepartureDate"]
                 departure_date_value == IF IsNone(departure_date_obj) THEN None
                                         ELSE Val(departure_date_obj).value_date
             IN  IF ~IsNone(departure_date_obj) /\ ~IsNone(departure_date_value)
                 THEN [warnings |-> <<>>, date_value |-> departure_date_value]
                 ELSE [warnings |-> <<>>, date_value |-> date_value]
        ELSE [warnings |-> <<>>, date_value |-> date_value]

\* lines 184-198: warnings and date_value
DateFallback(fields) ==
    LET date_obj   == fields["TransactionDate"]
        date_value == IF IsNone(date_obj) THEN None ELSE Val(date_obj).value_date
    IN  IF IsNone(date_value)
        THEN LET departure_date_obj   == fields["DepartureDate"]
                 departure_date_value == IF IsNone(departure_date_obj) THEN None
                                         ELSE Val(departure_date_obj).value_date
             IN  IF ~IsNone(departure_date_obj) /\ ~IsNone(departure_date_value)
                 THEN [warnings |-> <<"WARN_Date">>, date_value |-> departure_date_value]
                 ELSE [warnings |-> <<>>, date_value |-> date_value]
        ELSE [warnings |-> <<>>, date_value |-> date_value]

\* lines 227-240, given that total_confidence is a number.
\* Lines 228 and 233 assign a fresh list, the others append.
Validate(average_confidence, total_amount, total_confidence, date_value, date_confidence) ==
    LET v1 == IF average_confidence < CONFIDENCE_THRESHOLD
              THEN <<"ERR_low_avg_confidence">> ELSE <<>>
        v2 == IF IsNone(total_amount) THEN Append(v1, "ERR_no_brutto") ELSE v1
        v3 == IF total_confidence < CONFIDENCE_THRESHOLD
              THEN <<"ERR_low_brutto_confidence">> ELSE v2
        v4 == IF IsNone(date_value) THEN Append(v3, "ERR_no_date") ELSE v3
        \* `date_confidence and ...`: None and 0.0 are both falsy
        v5 == IF ~IsNone(date_confidence) /\ Val(date_confidence) # 0
                 /\ Val(date_confidence) < CONFIDENCE_THRESHOLD
              THEN Append(v4, "ERR_low_date_confidence") ELSE v4
    IN  v5

\* lines 227-231: the list as it stands when line 232 raises
ValidateUntilTotal(average_confidence, total_amount) ==
    LET v1 == IF average_confidence < CONFIDENCE_THRESHOLD
              THEN <<"ERR_low_avg_confidence">> ELSE <<>>
    IN  IF IsNone(total_amount) THEN Append(v1, "ERR_no_brutto") ELSE v1

Result(kind, exc, w, ve, out) ==
    [kind |-> kind, exc |-> exc, warnings |-> w, validation_errors |-> ve, output |-> out]

\* lines 183-252 for one receipt.  kind is "json" (line 252), "http_exception"
\* (lines 243-250) or "exception" (an exception no handler of the code catches).
ProcessReceipt(receipt, filename) ==
    LET fields        == receipt.fields
        receipt_type  == fields["ReceiptType"]
        country_obj   == fields["CountryRegion"]
        date_obj      == fields["TransactionDate"]
        time_obj      == fields["TransactionTime"]
        fb            == DateFallback(fields)
        date_value    == fb.date_value
        date_confidence == IF IsNone(date_obj) THEN None ELSE Val(date_obj).confidence
        time_value    == IF IsNone(time_obj) THEN None ELSE Val(time_obj).value_time
        country_value == IF IsNone(country_obj) THEN None
                         ELSE Val(country_obj).value_country_region
        ftd           == _format_tax_details(fields["TaxDetails"], country_value)
        total_obj     == fields["Total"]
        total_value_currency == IF IsNone(total_obj) THEN None
                                ELSE Val(total_obj).value_currency
        total_amount  == IF IsNone(total_value_currency) THEN None
                         ELSE Val(total_value_currency).amount
        total_currency == IF IsNone(total_value_currency) THEN None
                          ELSE Val(total_value_currency).currency_code
        total_confidence == IF IsNone(total_obj) THEN None ELSE Val(total_obj).confidence
        average_confidence == compute_average_confidence(receipt)
        tip_obj       == fields["Tip"]
        out == [Filename    |-> filename,
                Warnings    |-> IF fb.warnings # <<>> THEN Some(fb.warnings) ELSE None,
                Confidence  |-> average_confidence,
                Country     |-> ftd.country,
                Date        |-> IF IsNone(date_value) THEN None
                                ELSE Some(StrfDate(Val(date_value))),
                Time        |-> IF IsNone(time_value) THEN None
                                ELSE Some(StrfTime(Val(time_value))),
                Type        |-> IF IsNone(receipt_type) THEN None
                                ELSE Val(receipt_type).value_string,
                BruttoTotal |-> total_amount,
                Currency    |-> total_currency,
                Tip         |-> IF IsNone(tip_obj) THEN None
                                ELSE Val(Val(tip_obj).value_currency).amount,
                Taxes       |-> ftd.tax_list]
        ve == Validate(average_confidence, total_amount, Val(total_confidence),
                       date_value, date_confidence)
    IN  \* line 203: unpacking the None returned at line 69
        IF ftd.kind = "None" THEN Result("exception", "TypeError", fb.warnings, <<>>, None)
        \* line 66 reached with `rate` unbound
        ELSE IF ftd.kind = "raise"
        THEN Result("exception", "UnboundLocalError", fb.warnings, <<>>, None)
        \* line 221: None.amount
        ELSE IF ~IsNone(tip_obj) /\ IsNone(Val(tip_obj).value_currency)
        THEN Result("exception", "AttributeError", fb.warnings, <<>>, None)
        \* line 232: None < 0.5
        ELSE IF IsNone(total_confidence)
        THEN Result("exception", "TypeError", fb.warnings,
                    ValidateUntilTotal(average_confidence, total_amount), Some(out))
        ELSE IF ve # <<>>
        THEN Result("http_exception", "", fb.warnings, ve, Some(out))
        ELSE Result("json", "", fb.warnings, ve, Some(out))

-----------------------------------------------------------------------------
(* Inputs of process_image *)

\* strings are sequences of characters, so that str.startswith is computed
StartsWith(s, prefix) ==
    Len(s) >= Len(prefix) /\ SubSeq(s, 1, Len(prefix)) = prefix

ImagePrefix == <<"i", "m", "a", "g", "e", "/">>

PdfPrefix == <<"a", "p", "p", "l", "i", "c", "a", "t", "i", "o", "n", "/", "p", "d", "f">>

\* "image/png", "application/pdf", "text/plain", "image" and a missing header
ContentTypes ==
    {Some(<<"i", "m", "a", "g", "e", "/", "p", "n", "g">>),
     Some(<<"a", "p", "p", "l", "i", "c", "a", "t", "i", "o", "n", "/", "p", "d", "f">>),
     Some(<<"t", "e", "x", "t", "/", "p", "l", "a", "i", "n">>),
     Some(<<"i", "m", "a", "g", "e">>),
     None}

\* the bytes of the upload: nothing, a decodable PNG, or anything else
Contents == {"empty", "png", "garbage"}

Uploads == [content_type : ContentTypes, contents : Contents, filename : {"receipt"}]

NoUpload == [content_type |-> None, contents |-> "empty", filename |-> ""]

TransactionDay == [year |-> 2024, month |-> 3, day |-> 5]

DepartureDay == [year |-> 2024, month |-> 3, day |-> 7]

Noon == [hour |-> 12, minute |-> 30, second |-> 0]

ReceiptTypeFields == Opt({[confidence |-> Some(9000), value_string |-> Some("Meal")]})

CountryFields == Opt({[confidence |-> Some(9000), value_country_region |-> Some("DE")]})

TransactionDateFields ==
    Opt([confidence : {Some(0), Some(3000), Some(9000)}, value_date : Opt({TransactionDay})])

TransactionTimeFields == Opt({[confidence |-> Some(9000), value_time |-> Some(Noon)]})

DepartureDateFields == Opt([confidence : {Some(0)}, value_date : Opt({DepartureDay})])

\* total 11.91
TotalFields ==
    Opt([confidence : {Some(3000), Some(9000)}, value_currency : Opt({Currency(119100)})])

\* tip 1.00
TipFields == Opt([confidence : {Some(0)}, value_currency : Opt({Currency(10000)})])

\* an entry without value object, and one with rate 0.19 and net amount 10.01
ReceiptTaxEntries ==
    {[value_object |-> None],
     [value_object |-> Some([Rate      |-> Some([value_number |-> Some(1900)]),
                             NetAmount |-> Some([value_currency |-> Some(Currency(100100))]),
                             Amount    |-> None])]}

ReceiptTaxDetailsFields ==
    Opt({[confidence |-> Some(1000), value_array |-> a] :
            a \in SeqsUpTo(ReceiptTaxEntries, MaxTaxInReceipt)})

FieldMaps ==
    [ReceiptType     : ReceiptTypeFields,
     CountryRegion   : CountryFields,
     TransactionDate : TransactionDateFields,
     TransactionTime : TransactionTimeFields,
     DepartureDate   : DepartureDateFields,
     Total           : TotalFields,
     Tip             : TipFields,
     TaxDetails      : ReceiptTaxDetailsFields]

EmptyDoc == [fields |-> [n \in FieldNames |-> None]]

\* a complete receipt that passes every validation
SampleDoc ==
    [fields |->
        [ReceiptType     |-> Some([confidence |-> Some(9000), value_string |-> Some("Meal")]),
         CountryRegion   |-> None,
         TransactionDate |-> Some([confidence |-> Some(9000), value_date |-> Some(TransactionDay)]),
         TransactionTime |-> Some([confidence |-> Some(9000), value_time |-> Some(Noon)]),
         DepartureDate   |-> None,
         Total           |-> Some([confidence |-> Some(9000),
                                   value_currency |-> Some(Currency(119100))]),
         Tip             |-> None,
         TaxDetails      |-> Some([confidence |-> Some(1000), value_array |-> <<>>])]]

EmptyPrefix(k) == [i \in 1..k |-> EmptyDoc]

-----------------------------------------------------------------------------
(* process_image, lines 146-252 *)

\* line 148 accepting every content type
ValidContentTypeAny(content_type) == TRUE

\* line 148
ValidContentType(content_type) ==
    StartsWith(content_type, ImagePrefix) \/ StartsWith(content_type, PdfPrefix)

\* lines 157-158: Image.open and img.load succeed on decodable image bytes only
ImageLoads(contents) == contents = "png"

Pending ==
    [kind |-> "pending", status_code |-> 0, code |-> "", message |-> "",
     errors |-> <<>>, partial_output |-> None, exc |-> ""]

\* raise HTTPException(status_code=400, detail={"code": ..., "message": ...})
UploadError(code, message) ==
    [kind |-> "http_exception", status_code |-> 400, code |-> code, message |-> message,
     errors |-> <<>>, partial_output |-> None, exc |-> ""]

\* lines 243-250
ValidationError(errors, out) ==
    [kind |-> "http_exception", status_code |-> 400, code |-> "",
     message |-> "Validation failed for receipt", errors |-> errors,
     partial_output |-> out, exc |-> ""]

\* line 252: JSONResponse(content=output), status 200
JsonResponse ==
    [kind |-> "json", status_code |-> 200, code |-> "", message |-> "",
     errors |-> <<>>, partial_output |-> None, exc |-> ""]

\* an exception that leaves process_image uncaught: the framework answers 500
Uncaught(exc) ==
    [kind |-> "exception", status_code |-> 500, code |-> "", message |-> "",
     errors |-> <<>>, partial_output |-> None, exc |-> exc]

\* the function body ends without return: the framework answers 200 with null
ImplicitNone ==
    [kind |-> "null", status_code |-> 200, code |-> "", message |-> "",
     errors |-> <<>>, partial_output |-> None, exc |-> ""]

Init ==
    /\ pc = "idle"
    /\ image_file = NoUpload
    /\ analyzeCalls = 0
    /\ receipts = <<>>
    /\ idx = 1
    /\ processed = {}
    /\ warnings = <<>>
    /\ validation_errors = <<>>
    /\ output = None
    /\ outcome = Pending
    /\ taxArgs = [tax_details |-> None, country_code |-> None]
    /\ taxResult = [kind |-> "pending", country |-> None, tax_list |-> <<>>]

\* line 147: a request arrives with its upload
Request ==
    /\ pc = "idle"
    /\ image_file' \in Uploads
    /\ pc' = "received"
    /\ UNCHANGED <<analyzeCalls, receipts, idx, processed, warnings,
                   validation_errors, output, outcome, taxArgs, taxResult>>

\* lines 148-151; None.startswith raises AttributeError
CheckContentType ==
    /\ pc = "received"
    /\ IF IsNone(image_file.content_type)
       THEN pc' = "done" /\ outcome' = Uncaught("AttributeError")
       ELSE IF ~ValidContentType(Val(image_file.content_type))
       THEN pc' = "done"
            /\ outcome' = UploadError("ERR_invalid_type",
                                      "Invalid file type. Please upload an image.")
       ELSE pc' = "type_ok" /\ outcome' = outcome
    /\ UNCHANGED <<image_file, analyzeCalls, receipts, idx, processed, warnings,
                   validation_errors, output, taxArgs, taxResult>>

\* lines 152-164
LoadImage ==
    /\ pc = "type_ok"
    /\ StartsWith(Val(image_file.content_type), ImagePrefix)
    /\ IF ImageLoads(image_file.contents)
       THEN pc' = "loaded" /\ outcome' = outcome
       ELSE pc' = "done" /\ outcome' = UploadError("ERR_invalid_image", "Invalid image: ...")
    /\ UNCHANGED <<image_file, analyzeCalls, receipts, idx, processed, warnings,
                   validation_errors, output, taxArgs, taxResult>>

\* lines 165-172: the HTTPException raised at line 169 is an Exception, so the
\* handler at line 170 catches it and raises ERR_invalid_PDF, whose message is
\* the set {str(e)}
ReadPdf ==
    /\ pc = "type_ok"
    /\ ~StartsWith(Val(image_file.content_type), ImagePrefix)
    /\ IF image_file.contents = "empty"
       THEN pc' = "done"
            /\ outcome' = UploadError("ERR_invalid_PDF", "{'400: ERR_empty_PDF Empty PDF file.'}")
       ELSE pc' = "loaded" /\ outcome' = outcome
    /\ UNCHANGED <<image_file, analyzeCalls, receipts, idx, processed, warnings,
                   validation_errors, output, taxArgs, taxResult>>

\* lines 174-176: the call is made and poller.result() returns up to MaxDocs
\* documents.  Those before the first arbitrary one have no fields and those
\* after it are EmptyDoc or SampleDoc.
Analyze ==
    /\ pc = "loaded"
    /\ analyzeCalls' = analyzeCalls + 1
    /\ \/ receipts' = <<>>
       \/ \E k \in 0..(MaxDocs - 1), f \in FieldMaps :
            \E post \in SeqsUpTo({EmptyDoc, SampleDoc}, MaxDocs - k - 1) :
                receipts' = EmptyPrefix(k) \o <<[fields |-> f]>> \o post
    /\ idx' = 1
    /\ pc' = "analysed"
    /\ UNCHANGED <<image_file, processed, warnings, validation_errors, output,
                   outcome, taxArgs, taxResult>>

\* lines 174-176: the call is made and the service or the poller raises
AnalyzeFails ==
    /\ pc = "loaded"
    /\ analyzeCalls' = analyzeCalls + 1
    /\ pc' = "done"
    /\ outcome' = Uncaught("HttpResponseError")
    /\ UNCHANGED <<image_file, receipts, idx, processed, warnings,
                   validation_errors, output, taxArgs, taxResult>>

\* lines 179-252: one iteration of the loop (idx counts from 1 here)
LoopStep ==
    /\ pc = "analysed"
    /\ idx <= Len(receipts)
    /\ IF NoFields(receipts[idx])
       THEN /\ idx' = idx + 1
            /\ UNCHANGED <<pc, processed, warnings, validation_errors, output, outcome>>
       ELSE LET r == ProcessReceipt(receipts[idx], image_file.filename)
            IN  /\ processed' = processed \cup {idx}
                /\ warnings' = r.warnings
                /\ validation_errors' = r.validation_errors
                /\ output' = r.output
                /\ outcome' = IF r.kind = "json" THEN JsonResponse
                              ELSE IF r.kind = "http_exception"
                              THEN ValidationError(r.validation_errors, r.output)
                              ELSE Uncaught(r.exc)
                /\ pc' = "done"
                /\ idx' = idx
    /\ UNCHANGED <<image_file, analyzeCalls, receipts, taxArgs, taxResult>>

\* line 178 false, or the loop of line 179 is exhausted: the body ends
LoopExit ==
    /\ pc = "analysed"
    /\ idx > Len(receipts)
    /\ pc' = "done"
    /\ outcome' = ImplicitNone
    /\ UNCHANGED <<image_file, analyzeCalls, receipts, idx, processed, warnings,
                   validation_errors, output, taxArgs, taxResult>>

Next ==
    \/ Request
    \/ CheckContentType
    \/ LoadImage
    \/ ReadPdf
    \/ Analyze
    \/ AnalyzeFails
    \/ LoopStep
    \/ LoopExit

Spec == Init /\ [][Next]_vars

-----------------------------------------------------------------------------
(* _format_tax_details called directly on bounded inputs *)

TaxInit ==
    /\ pc = "tax_call"
    /\ image_file = NoUpload
    /\ analyzeCalls = 0
    /\ receipts = <<>>
    /\ idx = 1
    /\ processed = {}
    /\ warnings = <<>>
    /\ validation_errors = <<>>
    /\ output = None
    /\ outcome = Pending
    /\ taxArgs \in [tax_details  : Opt({TaxDetailsField(a) : a \in SeqsUpTo(TaxDetailEntries, MaxTax)}),
                    country_code : Countries]
    /\ taxResult = [kind |-> "pending", country |-> None, tax_list |-> <<>>]

CallFormatTaxDetails ==
    /\ pc = "tax_call"
    /\ taxResult' = _format_tax_details(taxArgs.tax_details, taxArgs.country_code)
    /\ pc' = "tax_done"
    /\ UNCHANGED <<image_file, analyzeCalls, receipts, idx, processed, warnings,
                   validation_errors, output, outcome, taxArgs>>

TaxNext == CallFormatTaxDetails

TaxSpec == TaxInit /\ [][TaxNext]_vars

-----------------------------------------------------------------------------
(* Vocabulary of the properties, read off the analysed receipt itself *)

\* the request has ended after reading the fields of a receipt
ReceiptHandled == pc = "done" /\ processed # {}

\* the receipt whose fields were read (the loop stops at it)
Handled == receipts[idx].fields

HasTotalAmount(f) ==
    /\ f["Total"] # None
    /\ f["Total"][1].value_currency # None
    /\ f["Total"][1].value_currency[1].amount # None

HasTransactionDate(f) ==
    f["TransactionDate"] # None /\ f["TransactionDate"][1].value_date # None

HasDepartureDate(f) ==
    f["DepartureDate"] # None /\ f["DepartureDate"][1].value_date # None

\* the confidence of a field is known and below 0.5
LowConfidence(f, name) ==
    /\ f[name] # None
    /\ f[name][1].confidence # None
    /\ f[name][1].confidence[1] < 5000

\* the confidence of a field is known and at least 0.5
GoodConfidence(f, name) ==
    /\ f[name] # None
    /\ f[name][1].confidence # None
    /\ f[name][1].confidence[1] >= 5000

UsesDepartureDate(f) == ~HasTransactionDate(f) /\ HasDepartureDate(f)

-----------------------------------------------------------------------------
(* Properties of process_image, checked under Spec *)

\* C1: the success payload is returned only if every validation rule is met:
\* average confidence at least 0.5, Total amount present with confidence at
\* least 0.5, a date present, and the confidence of TransactionDate, when the
\* field exists, at least 0.5 (a confidence of exactly 0 included).
C1_SuccessOnlyIfValid ==
    (pc = "done" /\ outcome.kind = "json") =>
        /\ Val(output).Confidence >= 5000
        /\ HasTotalAmount(Handled)
        /\ GoodConfidence(Handled, "Total")
        /\ (HasTransactionDate(Handled) \/ HasDepartureDate(Handled))
        /\ (Handled["TransactionDate"] # None => GoodConfidence(Handled, "TransactionDate"))

\* C2: a receipt without Total amount (field absent, or present without a
\* currency value) is answered with HTTP 400 whose errors contain
\* ERR_no_brutto and whose detail carries the partial output.
C2_NoTotalIsReported ==
    (ReceiptHandled /\ ~HasTotalAmount(Handled)) =>
        /\ outcome.kind = "http_exception"
        /\ outcome.status_code = 400
        /\ \E i \in DOMAIN outcome.errors : outcome.errors[i] = "ERR_no_brutto"
        /\ outcome.partial_output # None
        /\ outcome.partial_output = output

\* C3: when TransactionDate gives no date and DepartureDate does, the output
\* Date is the departure date, the output carries Warnings = [WARN_Date], and
\* ERR_no_date is not reported; Warnings is a key of the output exactly when
\* the fallback was used.
C3_DepartureDateFallback ==
    ReceiptHandled =>
        /\ UsesDepartureDate(Handled) =>
              \A i \in DOMAIN outcome.errors : outcome.errors[i] # "ERR_no_date"
        /\ output # None =>
              /\ UsesDepartureDate(Handled) =>
                    /\ Val(output).Date = Some(<<7, 3, 2024>>)
                    /\ Val(output).Warnings = Some(<<"WARN_Date">>)
              /\ (Val(output).Warnings # None) <=> UsesDepartureDate(Handled)
              /\ outcome.kind = "http_exception" => outcome.partial_output = output

\* C3 witness: the fallback was used and the payload was returned
C3_Witness ==
    /\ ReceiptHandled
    /\ UsesDepartureDate(Handled)
    /\ outcome.kind = "json"
    /\ Val(output).Warnings = Some(<<"WARN_Date">>)
    /\ Val(output).Date = Some(<<7, 3, 2024>>)

\* C4: whichever fields of a receipt with a non-empty field map are absent or
\* lack a value, the request ends with the JSON payload or an HTTP 400
\* validation error, never with an uncaught exception.
C4_NullSafeLookups ==
    ReceiptHandled => outcome.kind \in {"json", "http_exception"}

C6_EmptyPdfRejected ==
    (/\ pc = "done"
     /\ image_file.content_type # None
     /\ StartsWith(Val(image_file.content_type), PdfPrefix)
     /\ image_file.contents = "empty") =>
        /\ outcome.kind = "http_exception"
        /\ outcome.status_code = 400
        /\ outcome.code = "ERR_empty_PDF"
        /\ outcome.message = "Empty PDF file."
        /\ analyzeCalls = 0

\* C8: the errors of a validation failure contain an entry for every failed
\* check among low average confidence, missing Total amount, low Total
\* confidence, missing date and low TransactionDate confidence.
C8_EveryFailedCheckReported ==
    LET Reported(code) == \E i \in DOMAIN outcome.errors : outcome.errors[i] = code
    IN  (ReceiptHandled /\ outcome.kind = "http_exception") =>
            /\ Val(output).Confidence < 5000 => Reported("ERR_low_avg_confidence")
            /\ ~HasTotalAmount(Handled) => Reported("ERR_no_brutto")
            /\ LowConfidence(Handled, "Total") => Reported("ERR_low_brutto_confidence")
            /\ (~HasTransactionDate(Handled) /\ ~HasDepartureDate(Handled)) =>
                  Reported("ERR_no_date")
            /\ LowConfidence(Handled, "TransactionDate") => Reported("ERR_low_date_confidence")

\* C10: a request whose upload was accepted and whose analysis completed ends
\* with the payload or a validation error of the first document that has
\* fields, and with nothing else; later documents are not processed.
C10_ExactlyOneReceiptOutcome ==
    (/\ pc = "done"
     /\ analyzeCalls > 0
     /\ ~(outcome.kind = "exception" /\ outcome.exc = "HttpResponseError")) =>
        /\ outcome.kind \in {"json", "http_exception"}
        /\ Cardinality(processed) = 1
        /\ \A i \in processed :
              /\ ~NoFields(receipts[i])
              /\ \A j \in 1..(i - 1) : NoFields(receipts[j])

-----------------------------------------------------------------------------
(* Properties of _format_tax_details, checked under TaxSpec *)

\* the value objects of the TaxDetails entries, in input order
ValueObjects ==
    LET arr == Val(taxArgs.tax_details).value_array
        HasObject(d) == d.value_object # None
        kept == SelectSeq(arr, HasObject)
    IN  [i \in 1..Len(kept) |-> kept[i].value_object[1]]

GivenRate(o) == IF o.Rate = None THEN None ELSE o.Rate[1].value_number

GivenAmount(field) ==
    IF field = None \/ field[1].value_currency = None THEN None
    ELSE field[1].value_currency[1].amount

\* what the claim says of one entry e made from the value object o; Total is
\* how Brutto is obtained from the sum of net and tax amount
EntryAsClaimed(o, e, Total(_)) ==
    LET r   == GivenRate(o)
        net == GivenAmount(o.NetAmount)
        tax == GivenAmount(o.Amount)
    IN  /\ e.Netto = net
        /\ IF r # None
           THEN /\ e.Rate = r[1] * 100
                /\ e.TaxAmount = IF tax # None THEN tax
                                 ELSE IF net # None THEN Some((net[1] * r[1]) \div 10000)
                                 ELSE None
                /\ e.Brutto = IF net # None /\ e.TaxAmount # None
                              THEN Some(Total(net[1] + e.TaxAmount[1]))
                              ELSE None
           ELSE /\ e.Rate = 0
                /\ e.Brutto = net

TaxListAsClaimed(Total(_)) ==
    taxResult.kind = "tuple" =>
        /\ Len(taxResult.tax_list) = Len(ValueObjects)
        /\ \A i \in 1..Len(ValueObjects) :
              EntryAsClaimed(ValueObjects[i], taxResult.tax_list[i], Total)

Unrounded(x) == x

\* to two decimals: the nearest multiple of 100 units (no input is a tie)
ToCents(x) == ((x + 50) \div 100) * 100

\* C7 as stated: one entry per value object, in input order, with Rate r*100,
\* TaxAmount given or net*r, Brutto exactly net plus tax amount (null when one
\* is absent); Rate 0 and Brutto = net when the rate is absent.
C7_TaxListExactSum == TaxListAsClaimed(Unrounded)

\* C7 amended: the same, with Brutto being net plus tax amount rounded to two
\* decimals.
C7_TaxListRoundedSum == TaxListAsClaimed(ToCents)

\* C7 witness: an entry whose tax amount 1.9019 was computed from net amount
\* 10.01 and rate 0.19, and whose Brutto is 11.91
C7_Witness ==
    /\ taxResult.kind = "tuple"
    /\ \E i \in DOMAIN taxResult.tax_list :
          /\ taxResult.tax_list[i].Rate = 190000
          /\ taxResult.tax_list[i].TaxAmount = Some(19019)
          /\ taxResult.tax_list[i].Brutto = Some(119100)

\* C9: a DE receipt becomes AT only if its tax rate is not 0.19 or 0.07, a DE
\* receipt with rate 0.19 or 0.07 stays DE, and any other country is returned
\* unchanged.  The tax rate of the receipt is that of its last tax entry.
C9_CountryReconciliation ==
    LET n == Len(ValueObjects)
        lastRate == IF n = 0 THEN None ELSE GivenRate(ValueObjects[n])
        german == lastRate # None /\ lastRate[1] \in {1900, 700}
    IN  taxResult.kind = "tuple" =>
            /\ (taxArgs.country_code = Some("DE") /\ german) =>
                  taxResult.country = Some("DE")
            /\ (taxArgs.country_code = Some("DE") /\ taxResult.country = Some("AT")) =>
                  ~german
            /\ taxArgs.country_code # Some("DE") => taxResult.country = taxArgs.country_code

====
